---- MODULE Spec2Model ----
(***************************************************************************)
(* PrimePicks link tracker (src/server.js): an Express server over two     *)
(* MongoDB collections.  user_clicks is the deduplication ledger, with a   *)
(* unique index on (userId, linkId, date); counts holds one running total  *)
(* per link, with a unique index on linkId.                                *)
(*                                                                         *)
(* A click request is an async handler.  Its synchronous prefix (body      *)
(* parsing, validation, reading the clock, issuing insertOne) runs in one  *)
(* step.  Each awaited storage call then settles in a step of its own,     *)
(* which also runs the handler's code up to its next await or response:    *)
(* that code touches nothing but the request's own locals.  Handlers of    *)
(* different requests interleave at the awaits.                            *)
(*                                                                         *)
(* Time is counted in whole hours since the Unix epoch (UTC).              *)
(***************************************************************************)
EXTENDS Integers, Sequences, FiniteSets

\* ---------------------------------------------------------------- bounds
\* Number of click requests the model lets arrive.
MaxReqs == 2
\* Number of hours the clock may advance past StartTime.
MaxTicks == 1

\* ------------------------------------------------------------- constants
\* The clock when the server starts: 2024-02-29T20:00Z (day 19782 of the
\* epoch), which is 23:00 on the leap day in Nairobi.
StartTime == 19782 * 24 + 20
\* Africa/Nairobi is UTC+3 all year (no daylight saving).
NairobiOffsetHours == 3
HoursPerDay == 24
\* MongoDB's duplicate-key error code, tested by the click handler.
DuplicateKeyCode == 11000

\* Request-body values: "" stands for a missing or empty field (all falsy).
UserIds == {"", "u1", "u2"}
LinkIds == {"", "apk", "website"}
LinkUrls == {"", "http://a", "http://b"}

Reqs == 1..MaxReqs

VARIABLES
    server,      \* phase of start(): "connecting" ... "listening" / "exited"
    indexes,     \* the unique indexes that exist in the database
    userClicks,  \* collection user_clicks, in insertion order
    counts,      \* collection counts, in insertion order
    now,         \* the wall clock, hours since the epoch (UTC)
    req          \* req[r]: the state of click request r's handler

vars == <<server, indexes, userClicks, counts, now, req>>

\* ------------------------------------------------------- day key (pure)
\* Calendar date of a day number (days since 1970-01-01) in the proleptic
\* Gregorian calendar, as <<year, month, day>>: the fields that
\* toLocaleDateString("en-CA") prints zero-padded as YYYY-MM-DD.
CivilFromDays(days) ==
    LET z    == days + 719468
        era  == z \div 146097
        doe  == z - era * 146097
        yoe  == (doe - (doe \div 1460) + (doe \div 36524) - (doe \div 146096)) \div 365
        doy  == doe - (365 * yoe + (yoe \div 4) - (yoe \div 100))
        mp   == (5 * doy + 2) \div 153
        d    == doy - ((153 * mp + 2) \div 5) + 1
        m    == IF mp < 10 THEN mp + 3 ELSE mp - 9
        y    == yoe + era * 400 + (IF m <= 2 THEN 1 ELSE 0)
    IN  <<y, m, d>>

\* Mutant: the date taken in UTC instead of Africa/Nairobi.
DateStringUTC(t) == CivilFromDays(t \div HoursPerDay)

\* getNairobiDateString() evaluated when the clock reads t.
getNairobiDateString(t) ==
    CivilFromDays((t + NairobiOffsetHours) \div HoursPerDay)

\* Order of two date keys: the order of the YYYY-MM-DD strings.
DateLeq(a, b) ==
    \/ a[1] < b[1]
    \/ a[1] = b[1] /\ a[2] < b[2]
    \/ a[1] = b[1] /\ a[2] = b[2] /\ a[3] <= b[3]

\* ----------------------------------------------------------- sequences
\* The indices of the documents of collection s that pass Test.
Matching(s, Test(_)) == {i \in 1..Len(s) : Test(s[i])}
Min(S) == CHOOSE x \in S : \A y \in S : x <= y

\* ------------------------------------------------------------- storage
IdxUserClicks == "user_clicks(userId,linkId,date)"
IdxCounts == "counts(linkId)"

\* Mutant: the ledger's unique index compares whole documents.
SameTripleWholeDoc(a, b) == a = b

\* Two ledger documents collide on the unique index {userId, linkId, date}.
SameTriple(a, b) ==
    /\ a.userId = b.userId
    /\ a.linkId = b.linkId
    /\ a.date = b.date

\* Mutant: the index is created without { unique: true }.
DuplicateKeyNonUnique(coll, doc) == FALSE

\* userClicks.insertOne(doc) would violate the unique index.
DuplicateKey(coll, doc) ==
    /\ IdxUserClicks \in indexes
    /\ \E i \in 1..Len(coll) : SameTriple(coll[i], doc)

\* Mutant: the upsert never finds the existing counter.
CountsMatchNever(d, linkId) == FALSE

\* The filter { linkId } of counts.findOneAndUpdate.
CountsMatch(d, linkId) == d.linkId = linkId

\* Mutant: the update sets totalCount to 1 instead of incrementing it.
UpsertIncSet(coll, linkId, linkUrl, ts) ==
    LET hits == Matching(coll, LAMBDA d : CountsMatch(d, linkId))
    IN  IF hits # {}
        THEN [coll EXCEPT ![Min(hits)].totalCount = 1]
        ELSE Append(coll, [linkId |-> linkId, linkUrl |-> linkUrl,
                           createdAt |-> ts, totalCount |-> 1])

\* counts.findOneAndUpdate({linkId}, {$inc totalCount 1, $setOnInsert
\* {linkId, linkUrl, createdAt}}, {upsert, returnDocument: "after"}):
\* the collection afterwards.  The server applies it to one document
\* atomically; with no match it inserts {linkId, linkUrl, createdAt,
\* totalCount: 1}.
\* An upsert whose $inc is by -1.
UpsertIncDown(coll, linkId, linkUrl, ts) ==
    LET hits == Matching(coll, LAMBDA d : CountsMatch(d, linkId))
    IN  IF hits # {}
        THEN [coll EXCEPT ![Min(hits)].totalCount = @ - 1]
        ELSE Append(coll, [linkId |-> linkId, linkUrl |-> linkUrl,
                           createdAt |-> ts, totalCount |-> 1])

UpsertInc(coll, linkId, linkUrl, ts) ==
    LET hits == Matching(coll, LAMBDA d : CountsMatch(d, linkId))
    IN  IF hits # {}
        THEN LET i == Min(hits)
             IN  [coll EXCEPT ![i].totalCount = @ + 1]
        ELSE Append(coll, [linkId |-> linkId, linkUrl |-> linkUrl,
                           createdAt |-> ts, totalCount |-> 1])

\* The document the call returns (returnDocument: "after").
\* returnDocument: "before": the matched document as it was before $inc.
UpsertDocBefore(coll, linkId, linkUrl, ts) ==
    LET after == UpsertInc(coll, linkId, linkUrl, ts)
        hits  == Matching(coll, LAMBDA d : CountsMatch(d, linkId))
    IN  IF hits # {} THEN coll[Min(hits)] ELSE after[Len(after)]

UpsertDoc(coll, linkId, linkUrl, ts) ==
    LET after == UpsertInc(coll, linkId, linkUrl, ts)
        hits  == Matching(coll, LAMBDA d : CountsMatch(d, linkId))
    IN  IF hits # {} THEN after[Min(hits)] ELSE after[Len(after)]

\* ------------------------------------------------------------ requests
NoReq == [pc |-> "new"]

\* How an awaited storage call settles: resolved, rejected with MongoDB's
\* duplicate-key error, or rejected with an error that carries no such code.
Resolved == [thrown |-> FALSE]
DuplicateKeyError == [thrown |-> TRUE, code |-> DuplicateKeyCode]
StorageError == [thrown |-> TRUE]

\* Mutant: the handler does not test linkUrl.
MissingFieldNoUrl(userId, linkId, linkUrl) == userId = "" \/ linkId = ""

\* !userId || !linkId || !linkUrl
MissingField(userId, linkId, linkUrl) ==
    userId = "" \/ linkId = "" \/ linkUrl = ""

Resp400 == [status |-> 400, success |-> FALSE,
            message |-> "userId, linkId and linkUrl are required"]
RespAlready == [status |-> 200, success |-> FALSE, alreadyClicked |-> TRUE,
                message |-> "Already clicked today"]
RespInsertErr == [status |-> 500, success |-> FALSE, message |-> "DB insert error"]
RespServerErr == [status |-> 500, success |-> FALSE, message |-> "Server error"]
RespCounted(n) == [status |-> 200, success |-> TRUE, alreadyClicked |-> FALSE,
                   totalCount |-> n]

\* ---------------------------------------------------------------- Init
Init ==
    /\ server = "connecting"
    /\ indexes = {}
    /\ userClicks = <<>>
    /\ counts = <<>>
    /\ now = StartTime
    /\ req = [r \in Reqs |-> NoReq]

\* ------------------------------------------------------------- startup
\* await client.connect()
Connect ==
    /\ server = "connecting"
    /\ server' = "indexUserClicks"
    /\ UNCHANGED <<indexes, userClicks, counts, now, req>>

\* await userClicks.createIndex({userId, linkId, date}, {unique: true})
CreateUserClicksIndex ==
    /\ server = "indexUserClicks"
    /\ indexes' = indexes \cup {IdxUserClicks}
    /\ server' = "indexCounts"
    /\ UNCHANGED <<userClicks, counts, now, req>>

\* A start() that listens without awaiting the counts index.
ListenBeforeCountsIndex ==
    /\ server = "indexCounts"
    /\ server' = "listening"
    /\ UNCHANGED <<indexes, userClicks, counts, now, req>>

\* await counts.createIndex({linkId}, {unique: true}); the routes are then
\* registered and app.listen is called, all in the same synchronous run.
CreateCountsIndexAndListen ==
    /\ server = "indexCounts"
    /\ indexes' = indexes \cup {IdxCounts}
    /\ server' = "listening"
    /\ UNCHANGED <<userClicks, counts, now, req>>

\* connect or createIndex rejects: catch, process.exit(1).
StartFails ==
    /\ server \in {"connecting", "indexUserClicks", "indexCounts"}
    /\ server' = "exited"
    /\ UNCHANGED <<indexes, userClicks, counts, now, req>>

\* ---------------------------------------------------------------- clock
Tick ==
    /\ now < StartTime + MaxTicks
    /\ now' = now + 1
    /\ UNCHANGED <<server, indexes, userClicks, counts, req>>

\* ------------------------------------------------------- POST /api/click
\* What a finished request leaves behind: the triple it was about (absent
\* when the body was rejected) and the response the client received.
Finished(q, res) ==
    [pc |-> "done", userId |-> q.userId, linkId |-> q.linkId,
     date |-> q.date, res |-> res]

\* Lines 64-75: destructure the body, validate, read the date and the
\* timestamp, and issue userClicks.insertOne.
ClickReceive(r, userId, linkId, linkUrl) ==
    /\ server = "listening"
    /\ req[r].pc = "new"
    /\ \A q \in Reqs : q < r => req[q].pc # "new"
    /\ req' = [req EXCEPT ![r] =
         IF MissingField(userId, linkId, linkUrl)
         THEN [pc |-> "done", res |-> Resp400]
         ELSE [pc |-> "awaitInsert", userId |-> userId, linkId |-> linkId,
               linkUrl |-> linkUrl, date |-> getNairobiDateString(now),
               ts |-> now]]
    /\ UNCHANGED <<server, indexes, userClicks, counts, now>>

\* The document { userId, linkId, linkUrl, date, ts } of line 75.
\* A ledger document dated by the UTC calendar day of its timestamp.
ClickDocUtcDate(q) ==
    [userId |-> q.userId, linkId |-> q.linkId, linkUrl |-> q.linkUrl,
     date |-> DateStringUTC(q.ts), ts |-> q.ts]

ClickDoc(q) == [userId |-> q.userId, linkId |-> q.linkId, linkUrl |-> q.linkUrl,
                date |-> q.date, ts |-> q.ts]

\* Mutant: every rejection of insertOne is taken for a duplicate.
IsDuplicateAnyError(err) == err.thrown

\* err && err.code === 11000
IsDuplicate(err) ==
    err.thrown /\ "code" \in DOMAIN err /\ err.code = DuplicateKeyCode

\* Mutant: the handler goes on to the counter after a duplicate.
InsertOutcomeFallThrough(err) ==
    IF err.thrown /\ ~IsDuplicate(err) THEN "insertError" ELSE "inserted"

\* Lines 74-83: where the handler goes once insertOne has settled.
InsertOutcome(err) ==
    IF ~err.thrown THEN "inserted"
    ELSE IF IsDuplicate(err) THEN "alreadyClicked"
    ELSE "insertError"

\* Lines 76-90, the code after `await userClicks.insertOne`: answer
\* already-clicked or a 500, or issue counts.findOneAndUpdate.
AfterInsert(q, err) ==
    LET o == InsertOutcome(err)
    IN  IF o = "alreadyClicked" THEN Finished(q, RespAlready)
        ELSE IF o = "insertError" THEN Finished(q, RespInsertErr)
        ELSE [q EXCEPT !.pc = "awaitUpdate"]

\* The database executes insertOne: the document is appended, or the unique
\* index rejects it with error 11000; the handler resumes.
InsertOne(r) ==
    /\ req[r].pc = "awaitInsert"
    /\ IF DuplicateKey(userClicks, ClickDoc(req[r]))
       THEN /\ req' = [req EXCEPT ![r] = AfterInsert(@, DuplicateKeyError)]
            /\ UNCHANGED userClicks
       ELSE /\ userClicks' = Append(userClicks, ClickDoc(req[r]))
            /\ req' = [req EXCEPT ![r] = AfterInsert(@, Resolved)]
    /\ UNCHANGED <<server, indexes, counts, now>>

\* insertOne fails for another reason (timeout, connection lost): nothing
\* is written; the handler resumes in its catch.
InsertFail(r) ==
    /\ req[r].pc = "awaitInsert"
    /\ req' = [req EXCEPT ![r] = AfterInsert(@, StorageError)]
    /\ UNCHANGED <<server, indexes, userClicks, counts, now>>

\* Lines 92-98: updateRes.value ? updateRes.value.totalCount : 1, then the
\* success response; a throw lands in the outer catch (500 "Server error").
\* A handler without the outer catch: a rejected findOneAndUpdate leaves
\* the request without a response.
AfterUpdateUncaught(q, err, updateRes) ==
    IF err.thrown THEN [q EXCEPT !.pc = "unhandledRejection"]
    ELSE Finished(q, RespCounted(IF "value" \in DOMAIN updateRes
                                 THEN updateRes.value.totalCount ELSE 1))

AfterUpdate(q, err, updateRes) ==
    IF err.thrown THEN Finished(q, RespServerErr)
    ELSE Finished(q, RespCounted(IF "value" \in DOMAIN updateRes
                                 THEN updateRes.value.totalCount ELSE 1))

\* The database executes the upsert-increment; the handler resumes and
\* answers.
FindOneAndUpdate(r) ==
    /\ req[r].pc = "awaitUpdate"
    /\ LET q == req[r]
       IN  /\ counts' = UpsertInc(counts, q.linkId, q.linkUrl, q.ts)
           /\ req' = [req EXCEPT ![r] = AfterUpdate(@, Resolved,
                 [value |-> UpsertDoc(counts, q.linkId, q.linkUrl, q.ts)])]
    /\ UNCHANGED <<server, indexes, userClicks, now>>

\* findOneAndUpdate fails: nothing is written and the await throws.
UpdateFail(r) ==
    /\ req[r].pc = "awaitUpdate"
    /\ req' = [req EXCEPT ![r] = AfterUpdate(@, StorageError, [ok |-> 0])]
    /\ UNCHANGED <<server, indexes, userClicks, counts, now>>

Next ==
    \/ Connect
    \/ CreateUserClicksIndex
    \/ CreateCountsIndexAndListen
    \/ StartFails
    \/ Tick
    \/ \E r \in Reqs, u \in UserIds, l \in LinkIds, url \in LinkUrls :
          ClickReceive(r, u, l, url)
    \/ \E r \in Reqs : InsertOne(r)
    \/ \E r \in Reqs : InsertFail(r)
    \/ \E r \in Reqs : FindOneAndUpdate(r)
    \/ \E r \in Reqs : UpdateFail(r)

Spec == Init /\ [][Next]_vars

\* --------------------------------------------------------- GET /api/stats
\* Lines 105-111: the stats object a query builds from the counts documents
\* it finds.  links is the set of ids of ?links=a,b ({} when the parameter
\* is absent or empty: no filter).  forEach assigns in document order, so a
\* later document of the same linkId overwrites an earlier one.
\* A find that ignores the ?links= filter.
GetStatsNoFilter(coll, links) ==
    LET last(l) == CHOOSE i \in 1..Len(coll) :
                     /\ coll[i].linkId = l
                     /\ \A j \in 1..Len(coll) : coll[j].linkId = l => j <= i
    IN  [l \in {coll[i].linkId : i \in 1..Len(coll)} |->
           [linkUrl |-> coll[last(l)].linkUrl,
            totalCount |-> coll[last(l)].totalCount,
            createdAt |-> coll[last(l)].createdAt]]

GetStats(coll, links) ==
    LET docs == Matching(coll, LAMBDA d : links = {} \/ d.linkId \in links)
        last(l) == CHOOSE i \in docs :
                     /\ coll[i].linkId = l
                     /\ \A j \in docs : coll[j].linkId = l => j <= i
    IN  [l \in {coll[i].linkId : i \in docs} |->
           [linkUrl |-> coll[last(l)].linkUrl,
            totalCount |-> coll[last(l)].totalCount,
            createdAt |-> coll[last(l)].createdAt]]

\* The stats query parameters tried: no ?links= at all ({}), or a list.
StatsFilters == SUBSET (LinkIds \ {""})

\* Lines 102-106: the stats handler builds its filter and issues
\* counts.find(filter).toArray().
StatsReceive(r, links) ==
    /\ server = "listening"
    /\ req[r].pc = "new"
    /\ \A q \in Reqs : q < r => req[q].pc # "new"
    /\ req' = [req EXCEPT ![r] =
                 [pc |-> "awaitFind", kind |-> "stats", links |-> links]]
    /\ UNCHANGED <<server, indexes, userClicks, counts, now>>

\* Lines 107-112: the database answers the find; the handler builds the
\* stats object and responds (fetchedAt is the clock at that moment).
StatsFind(r) ==
    /\ req[r].pc = "awaitFind"
    /\ req[r].kind = "stats"
    /\ req' = [req EXCEPT ![r] =
                 [pc |-> "done", kind |-> "stats", links |-> @.links,
                  res |-> [status |-> 200, success |-> TRUE,
                           stats |-> GetStats(counts, @.links),
                           fetchedAt |-> now]]]
    /\ UNCHANGED <<server, indexes, userClicks, counts, now>>

\* ------------------------------------------------------- GET /api/recent
\* .limit(200)
RecentLimit == 200

\* The orders in which .sort({ ts: -1 }) may return the documents of coll:
\* newest first, documents of equal ts in either order.
SortedByTsDesc(coll) ==
    {p \in [1..Len(coll) -> 1..Len(coll)] :
        /\ \A i, j \in 1..Len(coll) : p[i] = p[j] => i = j
        /\ \A i, j \in 1..Len(coll) : i < j => coll[p[i]].ts >= coll[p[j]].ts}

\* Lines 121-126: the handler issues user_clicks.find({}).sort().limit().
RecentReceive(r) ==
    /\ server = "listening"
    /\ req[r].pc = "new"
    /\ \A q \in Reqs : q < r => req[q].pc # "new"
    /\ req' = [req EXCEPT ![r] = [pc |-> "awaitFind", kind |-> "recent"]]
    /\ UNCHANGED <<server, indexes, userClicks, counts, now>>

\* A recent-clicks read that removes the documents it returns.
RecentFindDeletes(r) ==
    /\ req[r].pc = "awaitFind"
    /\ req[r].kind = "recent"
    /\ req' = [req EXCEPT ![r] =
                 [pc |-> "done", kind |-> "recent",
                  res |-> [status |-> 200, success |-> TRUE,
                           recent |-> userClicks]]]
    /\ userClicks' = <<>>
    /\ UNCHANGED <<server, indexes, counts, now>>

\* Lines 122-127: the database answers; the handler responds with at most
\* RecentLimit documents, newest first.
RecentFind(r) ==
    /\ req[r].pc = "awaitFind"
    /\ req[r].kind = "recent"
    /\ \E p \in SortedByTsDesc(userClicks) :
         LET n == IF Len(userClicks) < RecentLimit
                  THEN Len(userClicks) ELSE RecentLimit
         IN  req' = [req EXCEPT ![r] =
                 [pc |-> "done", kind |-> "recent",
                  res |-> [status |-> 200, success |-> TRUE,
                           recent |-> [i \in 1..n |-> userClicks[p[i]]]]]]
    /\ UNCHANGED <<server, indexes, userClicks, counts, now>>

\* Lines 113-116 and 128-131: the find of a read rejects; the handler's
\* catch answers 500 "Server error".
ReadFail(r) ==
    /\ req[r].pc = "awaitFind"
    /\ req' = [req EXCEPT ![r] =
                 [pc |-> "done", kind |-> @.kind, res |-> RespServerErr]]
    /\ UNCHANGED <<server, indexes, userClicks, counts, now>>

\* The server with its read endpoints: every request is a click, a stats
\* query or a recent-clicks query.
NextReads ==
    \/ Next
    \/ \E r \in Reqs, links \in StatsFilters : StatsReceive(r, links)
    \/ \E r \in Reqs : StatsFind(r)
    \/ \E r \in Reqs : RecentReceive(r)
    \/ \E r \in Reqs : RecentFind(r)
    \/ \E r \in Reqs : ReadFail(r)

SpecReads == Init /\ [][NextReads]_vars

\* ------------------------------------------------- vocabulary of the claims
ValidLinks == LinkIds \ {""}
Received(r) == "userId" \in DOMAIN req[r]
Done(r) == req[r].pc = "done"
Counted(r) == Done(r) /\ req[r].res.success
AlreadyClicked(r) == Done(r) /\ req[r].res = RespAlready
StorageErr(r) == Done(r) /\ req[r].res.status = 500
InsertErr(r) == Done(r) /\ req[r].res = RespInsertErr
\* The ledger insert committed and the counter increment failed.
PartialFailure(r) == Done(r) /\ req[r].res = RespServerErr
\* Request s arrived after request r (requests are numbered as they arrive).
Later(s, r) == Received(s) /\ Received(r) /\ s > r
\* r and s carry the same (visitor, link) and fell on the same day key.
SameClick(r, s) ==
    /\ Received(r) /\ Received(s)
    /\ req[r].userId = req[s].userId
    /\ req[r].linkId = req[s].linkId
    /\ req[r].date = req[s].date
Group(r) == {s \in Reqs : SameClick(r, s)}
ForLink(l) == {r \in Reqs : Received(r) /\ req[r].linkId = l}
\* The total a stats query reports for link l (0 when it reports none).
TotalCount(l) ==
    LET st == GetStats(counts, {})
    IN  IF l \in DOMAIN st THEN st[l].totalCount ELSE 0
\* The number of ledger records of link l.
LedgerCount(l) ==
    Cardinality({i \in 1..Len(userClicks) : userClicks[i].linkId = l})
\* The position of request r's own record in the ledger (0 when absent).
LedgerPos(r) ==
    LET hits == {i \in 1..Len(userClicks) :
                   /\ userClicks[i].userId = req[r].userId
                   /\ userClicks[i].linkId = req[r].linkId
                   /\ userClicks[i].date = req[r].date}
    IN  IF hits = {} THEN 0 ELSE Min(hits)
\* The Nairobi calendar day (days since the epoch, UTC+3) of instant t.
NairobiDay(t) == (t + 3) \div 24

\* ------------------------------------------------------------------ C1
\* C1 as stated: once every request of one (visitor, link, day) has been
\* answered, exactly one of them was answered counted (said here of the
\* clicks that reached the ledger).
C1_ExactlyOneCounted ==
    \A r \in Reqs :
        (Received(r) /\ LedgerPos(r) > 0 /\ \A s \in Group(r) : Done(s))
        => Cardinality({s \in Group(r) : Counted(s)}) = 1

\* C1 (amended): among the requests of one (visitor, link, day) at most one
\* is answered counted, and every other one is answered already-clicked
\* unless its own ledger insert failed with a storage error; when all of
\* them are answered and none with a storage error (HTTP 500), exactly one
\* was counted.
C1_OneCountedBarringStorageErrors ==
    /\ \A r \in Reqs : \A s \in Group(r) \ {r} :
           (Counted(r) /\ Done(s)) => (AlreadyClicked(s) \/ InsertErr(s))
    /\ \A r \in Reqs :
           (Received(r) /\ \A s \in Group(r) : Done(s) /\ ~StorageErr(s))
           => Cardinality({s \in Group(r) : Counted(s)}) = 1

\* A first request was counted and a later one of the same click was
\* answered already-clicked.
C1_Witness ==
    \E r, s \in Reqs :
        Later(s, r) /\ SameClick(r, s) /\ Counted(r) /\ AlreadyClicked(s)

\* ------------------------------------------------------------------ C2
\* C2 as stated: K >= 2 requests of one (visitor, link, day), in any
\* interleaving: once all are answered, 1 is counted and K-1 are
\* already-clicked (said here of the clicks that reached the ledger).
C2_ConcurrentExactlyOne ==
    \A r \in Reqs :
        (/\ Received(r) /\ LedgerPos(r) > 0
         /\ Cardinality(Group(r)) >= 2
         /\ \A s \in Group(r) : Done(s))
        => /\ Cardinality({s \in Group(r) : Counted(s)}) = 1
           /\ Cardinality({s \in Group(r) : AlreadyClicked(s)})
                = Cardinality(Group(r)) - 1

\* The part of a link's total that the requests of G did not contribute.
CountedOutside(l, G) == Cardinality({s \in ForLink(l) \ G : Counted(s)})

\* C2 (amended): in any interleaving, the K requests of one (visitor, link,
\* day) never yield more than one counted answer and never raise the
\* link's totalCount by more than 1; once all are answered and none with a
\* storage error (HTTP 500), exactly 1 is counted, K-1 are already-clicked
\* and totalCount has risen by exactly 1.
C2_ConcurrentOneBarringStorageErrors ==
    \A r \in Reqs : Received(r) =>
        LET G == Group(r)
            l == req[r].linkId
        IN  /\ Cardinality({s \in G : Counted(s)}) <= 1
            /\ TotalCount(l) - CountedOutside(l, G) <= 1
            /\ (\A s \in G : Done(s) /\ ~StorageErr(s))
               => /\ Cardinality({s \in G : Counted(s)}) = 1
                  /\ Cardinality({s \in G : AlreadyClicked(s)})
                       = Cardinality(G) - 1
                  /\ TotalCount(l) - CountedOutside(l, G) = 1

\* Two requests of one click overlapped: the one that arrived first was
\* answered already-clicked, the one that arrived second was counted.
C2_Witness ==
    \E r, s \in Reqs :
        /\ Later(s, r) /\ SameClick(r, s)
        /\ AlreadyClicked(r) /\ Counted(s)
        /\ TotalCount(req[r].linkId) = 1

\* ------------------------------------------------------------------ C3
\* C3: the ledger never holds two records with the same (userId, linkId,
\* date).
C3_LedgerTripleUnique ==
    \A i, j \in 1..Len(userClicks) :
        (/\ userClicks[i].userId = userClicks[j].userId
         /\ userClicks[i].linkId = userClicks[j].linkId
         /\ userClicks[i].date = userClicks[j].date) => i = j

\* A second insert of a triple was attempted and turned away: the ledger
\* holds the triple once.
C3_Witness ==
    \E r \in Reqs :
        /\ AlreadyClicked(r)
        /\ LedgerPos(r) > 0

\* ------------------------------------------------------------------ C4
\* C4: when N requests were answered counted for a link (their triples are
\* pairwise distinct), a stats query reports totalCount = N for it.
C4_StatsEqualsCounted ==
    \A l \in ValidLinks :
        LET N == Cardinality({r \in ForLink(l) : Counted(r)})
        IN  /\ \A r, s \in ForLink(l) :
                 (Counted(r) /\ Counted(s) /\ r # s) => ~SameClick(r, s)
            /\ N > 0 => /\ l \in DOMAIN GetStats(counts, {})
                        /\ GetStats(counts, {})[l].totalCount = N

\* Two clicks with distinct triples were counted for one link.
C4_Witness ==
    \E l \in ValidLinks :
        /\ Cardinality({r \in ForLink(l) : Counted(r)}) = 2
        /\ GetStats(counts, {})[l].totalCount = 2

\* ------------------------------------------------------------------ C5
\* C5 as stated: in every state, each link's totalCount equals the number
\* of ledger records of that link.
C5_TotalEqualsLedger ==
    \A l \in ValidLinks : TotalCount(l) = LedgerCount(l)

\* Requests of link l between their ledger insert and their increment.
InWindow(l) == {r \in ForLink(l) : req[r].pc = "awaitUpdate"}
\* Requests of link l whose increment failed after their insert committed.
FailedIncrements(l) == {r \in ForLink(l) : PartialFailure(r)}

\* C5 (amended): each link's totalCount equals the number of its ledger
\* records less the clicks that are between their ledger insert and their
\* counter increment and less the clicks whose increment failed; so the
\* two are equal whenever there is no such click.
C5_TotalEqualsLedgerLessPending ==
    \A l \in ValidLinks :
        TotalCount(l) = LedgerCount(l) - Cardinality(InWindow(l))
                          - Cardinality(FailedIncrements(l))

\* A link whose counter has caught up with a ledger of two records.
C5_Witness ==
    \E l \in ValidLinks :
        /\ LedgerCount(l) = 2 /\ TotalCount(l) = 2
        /\ InWindow(l) = {} /\ FailedIncrements(l) = {}

\* ------------------------------------------------------------------ C6
\* A request that got past validation carries three non-empty fields.
C6_PastValidation ==
    \A r \in Reqs :
        (req[r].pc # "new" /\ ~(Done(r) /\ req[r].res = Resp400))
        => /\ Received(r)
           /\ req[r].userId # "" /\ req[r].linkId # ""
           /\ req[r].pc \in {"awaitInsert", "awaitUpdate"} => req[r].linkUrl # ""

\* The step that rejects a request changes neither the ledger nor a counter.
C6_RejectStep ==
    \A r \in Reqs :
        (req[r].pc = "new" /\ req'[r].pc = "done")
        => /\ req'[r].res = Resp400
           /\ userClicks' = userClicks
           /\ counts' = counts

\* C6: a click request with a missing or empty visitorId, linkId or linkUrl
\* is answered 400 and changes neither the ledger nor any counter (so a
\* request that is not answered 400 has all three fields).
C6_InvalidInputRejected == []C6_PastValidation /\ [][C6_RejectStep]_vars

\* A request was rejected next to a ledger and a counter that hold another
\* request's click.
C6_Witness ==
    /\ \E r \in Reqs : Done(r) /\ req[r].res = Resp400
    /\ Len(userClicks) = 1 /\ Len(counts) = 1

\* ------------------------------------------------------------------ C7
\* A request that waits for its increment has its own record in the ledger.
C7_IncrementAfterOwnInsert ==
    \A r \in Reqs :
        req[r].pc = "awaitUpdate"
        => \E i \in 1..Len(userClicks) : userClicks[i] = ClickDoc(req[r])

\* The step of a request whose triple is already in the ledger.
C7_DuplicateStep ==
    \A r \in Reqs :
        (/\ req[r].pc = "awaitInsert" /\ req'[r].pc # "awaitInsert"
         /\ LedgerPos(r) > 0)
        => /\ req'[r].pc = "done"
           /\ req'[r].res \in {RespAlready, RespInsertErr}
           /\ userClicks' = userClicks
           /\ counts' = counts

\* The counters change only in the step of a request that inserted before.
C7_CountsStep ==
    counts' # counts
    => \E r \in Reqs : req[r].pc = "awaitUpdate" /\ req'[r].pc = "done"

\* C7: the counter is incremented only by a request whose own ledger insert
\* succeeded; a request whose insert hits the uniqueness violation is
\* answered already-clicked (HTTP 200) and leaves the ledger and every
\* counter unchanged.
C7_NoIncrementOnDuplicate ==
    /\ []C7_IncrementAfterOwnInsert
    /\ [][C7_DuplicateStep /\ C7_CountsStep]_vars

\* A duplicate was answered already-clicked next to an existing counter.
C7_Witness ==
    \E r \in Reqs :
        /\ AlreadyClicked(r)
        /\ TotalCount(req[r].linkId) = 1
        /\ LedgerCount(req[r].linkId) = 1

\* ------------------------------------------------------------------ C8
\* The counter documents of link l.
CounterDocs(l) == {i \in 1..Len(counts) : counts[i].linkId = l}

\* C8: counted clicks of one link, however they interleave, lose no
\* update: the link has exactly one counter record and its totalCount is
\* the number of counted clicks.
C8_NoLostUpdate ==
    \A l \in ValidLinks :
        /\ Cardinality(CounterDocs(l)) <= 1
        /\ \A r \in ForLink(l) : Counted(r) =>
              /\ Cardinality(CounterDocs(l)) = 1
              /\ \A i \in CounterDocs(l) :
                    counts[i].totalCount
                      = Cardinality({s \in ForLink(l) : Counted(s)})

\* Two first clicks of distinct visitors on one link overlapped (r inserted
\* first, s was incremented first) and the counter reads 2.
C8_Witness ==
    \E r, s \in Reqs :
        /\ Counted(r) /\ Counted(s)
        /\ req[r].linkId = req[s].linkId
        /\ req[r].userId # req[s].userId
        /\ LedgerPos(r) < LedgerPos(s)
        /\ req[s].res.totalCount = 1
        /\ req[r].res.totalCount = 2
        /\ \A i \in CounterDocs(req[r].linkId) : counts[i].totalCount = 2

\* ------------------------------------------------------------------ C9
\* r and s are the only requests of their triples, for one visitor and
\* link, on different day keys.
AcrossDays(r, s) ==
    /\ Received(r) /\ Received(s)
    /\ req[r].userId = req[s].userId
    /\ req[r].linkId = req[s].linkId
    /\ req[r].date # req[s].date
    /\ Group(r) = {r} /\ Group(s) = {s}

\* A request that the click logic answered: its own storage calls were not
\* rejected by the store (a rejected call is answered HTTP 500 instead).
Answered(r) == Done(r) /\ ~StorageErr(r)

\* Clicks on different days, once answered, are both counted.
C9_BothDaysCounted ==
    \A r, s \in Reqs :
        (AcrossDays(r, s) /\ Answered(r) /\ Answered(s))
        => (Counted(r) /\ Counted(s))

\* A request is answered already-clicked only against a ledger record of
\* the same visitor and link made on the same Nairobi calendar day.
C9_DuplicateOnlySameDay ==
    \A r \in Reqs :
        (req[r].pc = "awaitInsert" /\ req'[r].pc = "done"
           /\ req'[r].res = RespAlready)
        => \E i \in 1..Len(userClicks) :
              /\ userClicks[i].userId = req[r].userId
              /\ userClicks[i].linkId = req[r].linkId
              /\ NairobiDay(userClicks[i].ts) = NairobiDay(req[r].ts)

\* The day key follows the Nairobi calendar day and never decreases.
C9_DayKeyMonotone ==
    /\ DateLeq(getNairobiDateString(now), getNairobiDateString(now'))
    /\ (NairobiDay(now') = NairobiDay(now))
         <=> (getNairobiDateString(now') = getNairobiDateString(now))

ShortByFailures(l) ==
    InWindow(l) = {}
    => LedgerCount(l) - TotalCount(l) = Cardinality(FailedIncrements(l))

C11_CountedStep(r) ==
    /\ req[r].pc = "awaitUpdate"
    /\ req'[r].pc = "done"
    /\ req'[r].res.success
C11_LinkUrlLastWriteWins ==
    [][\A r \in Reqs :
         C11_CountedStep(r)
         => GetStats(counts', {})[req[r].linkId].linkUrl = req[r].linkUrl]_vars

\* ------------------------------------------------------------------ C12
\* The linkIds that have a counter record.
CounterLinks == {counts[i].linkId : i \in 1..Len(counts)}
\* Request r is a stats query whose find is being answered in this step.
C12_StatsAnswered(r) ==
    /\ req[r].pc = "awaitFind"
    /\ req[r].kind = "stats"
    /\ req'[r].pc = "done"
    /\ req'[r].res.success

StatsDone(r) ==
    /\ "kind" \in DOMAIN req[r]
    /\ req[r].kind = "stats"
    /\ Done(r)
    /\ req[r].res.success

listClickedLinksToday(ledger, visitorId, t) ==
    {ledger[i].linkId :
       i \in {j \in 1..Len(ledger) :
                /\ ledger[j].userId = visitorId
                /\ ledger[j].date = getNairobiDateString(t)}}

\* The clicks of visitor v on link l whose day key is that of the clock.
ClicksToday(v, l) ==
    {r \in Reqs : /\ Received(r)
                  /\ req[r].userId = v
                  /\ req[r].linkId = l
                  /\ req[r].date = getNairobiDateString(now)}

\* C13 as stated: once every request is answered, the query returns for
\* each visitor exactly the linkIds of that visitor's clicks counted on the
\* current day key.
C13_ExactlyCountedToday ==
    (\A r \in Reqs : Received(r) => Done(r))
    => \A v \in UserIds \ {""} :
         listClickedLinksToday(userClicks, v, now)
           = {l \in ValidLinks : \E r \in ClicksToday(v, l) : Counted(r)}

\* C13 (amended): the query returns exactly the linkIds of the visitor's
\* clicks of the current day key whose ledger insert committed: every click
\* counted that day, and besides these only clicks that are between insert
\* and increment or whose increment failed; a link the visitor clicked only
\* on an earlier day is not returned.
C13_ExactlyInsertedToday ==
    \A v \in UserIds \ {""} :
      LET today == listClickedLinksToday(userClicks, v, now)
      IN  /\ \A l \in ValidLinks :
               (\E r \in ClicksToday(v, l) : Counted(r)) => l \in today
          /\ \A l \in today :
               \E r \in ClicksToday(v, l) :
                   Counted(r) \/ PartialFailure(r) \/ req[r].pc = "awaitUpdate"
          /\ \A l \in ValidLinks :
               ClicksToday(v, l) = {} => l \notin today

\* A visitor's click on one link was counted the day before and their click
\* on another link was counted today: the query returns the second alone.
C13_Witness ==
    \E r, s \in Reqs :
        /\ Counted(r) /\ Counted(s)
        /\ req[r].userId = req[s].userId
        /\ req[r].linkId # req[s].linkId
        /\ req[r].date # getNairobiDateString(now)
        /\ req[s].date = getNairobiDateString(now)
        /\ listClickedLinksToday(userClicks, req[s].userId, now)
             = {req[s].linkId}

\* ------------------------------------------------------------------ C14
\* Request r is a read (stats or recent-clicks query) and this step is one
\* of its handler's steps.
C14_ReadStep(r) ==
    /\ req'[r] # req[r]
    /\ "kind" \in DOMAIN req'[r]

\* C14: every step of a stats query or of a recent-clicks query, wherever it
\* falls among the steps of the click requests, leaves the ledger and the
\* counters as they were.
C14_ReadsChangeNothing ==
    [][\A r \in Reqs :
         C14_ReadStep(r) => /\ userClicks' = userClicks
                            /\ counts' = counts]_vars

\* A recent-clicks query was answered with the record of a click that is
\* still between its ledger insert and its counter increment.
C14_Witness ==
    \E r, s \in Reqs :
        /\ Received(s)
        /\ req[s].pc = "awaitUpdate"
        /\ "kind" \in DOMAIN req[r]
        /\ req[r].kind = "recent"
        /\ Done(r)
        /\ req[r].res.success
        /\ Len(req[r].res.recent) = 1
        /\ Len(userClicks) = 1
        /\ counts = <<>>

\* ------------------------------------------------------------------ C15
\* The total a stats query would report for link l on the counters coll.
TotalIn(coll, l) ==
    LET st == GetStats(coll, {})
    IN  IF l \in DOMAIN st THEN st[l].totalCount ELSE 0

\* C15: every counter's totalCount is a non-negative integer; from one
\* state to the next no counter record is removed or changes its linkId,
\* and no link's totalCount decreases.
C15_TotalIsNat == \A i \in 1..Len(counts) : counts[i].totalCount \in Nat
C15_CountsStep ==
    /\ Len(counts') >= Len(counts)
    /\ \A i \in 1..Len(counts) :
         /\ counts'[i].linkId = counts[i].linkId
         /\ counts'[i].totalCount >= counts[i].totalCount
    /\ \A l \in ValidLinks : TotalIn(counts', l) >= TotalIn(counts, l)
C15_CountersOnlyGrow == []C15_TotalIsNat /\ [][C15_CountsStep]_vars

\* A counter that was created at 1 has been incremented to 2.
C15_Witness == \E i \in 1..Len(counts) : counts[i].totalCount = 2

\* ------------------------------------------------------------------ C16
\* The click handler under the assumption that every storage call that has
\* been issued eventually resolves or rejects.
SpecLive ==
    /\ Spec
    /\ \A r \in Reqs :
         /\ WF_vars(InsertOne(r) \/ InsertFail(r))
         /\ WF_vars(FindOneAndUpdate(r) \/ UpdateFail(r))

\* The response of an answered request is one of the four kinds.
C16_ResponseKind(r) ==
    \/ req[r].res = Resp400
    \/ req[r].res = RespAlready
    \/ req[r].res.status = 500
    \/ req[r].res.success
C16_AnsweredOnce(r) ==
    Done(r) => /\ req'[r] = req[r]
               /\ C16_ResponseKind(r)

\* C16: every click request that has arrived is eventually answered, with a
\* counted, already-clicked, invalid-input or storage-error response, and
\* once answered its response is never replaced by another one.
C16_EveryClickAnswered ==
    /\ \A r \in Reqs : (req[r].pc # "new") ~> Done(r)
    /\ [][\A r \in Reqs : C16_AnsweredOnce(r)]_vars

\* All requests have been answered, one of them after both of its storage
\* calls and another one after a storage call failed.
C16_Witness ==
    /\ \A r \in Reqs : Done(r)
    /\ \E r \in Reqs : Counted(r)
    /\ \E r \in Reqs : StorageErr(r)

\* ------------------------------------------------------------------ C17
\* The clicks of link l that were answered counted.
CountedFor(l) == {r \in ForLink(l) : Counted(r)}

\* C17: the step that answers a click counted returns the value its own
\* increment left in the counter, one more than the value before (1 when
\* the click creates the counter) ...
C17_CountedStep ==
    \A r \in Reqs :
        (req[r].pc = "awaitUpdate" /\ req'[r].pc = "done" /\ req'[r].res.success)
        => /\ req'[r].res.totalCount = TotalIn(counts, req[r].linkId) + 1
           /\ req'[r].res.totalCount = TotalIn(counts', req[r].linkId)
\* ... and the values returned to the counted clicks of one link are
\* pairwise distinct and run from 1 up to their number.
C17_DistinctTotals ==
    \A l \in ValidLinks :
        /\ \A r, s \in CountedFor(l) :
             r # s => req[r].res.totalCount # req[s].res.totalCount
        /\ {req[r].res.totalCount : r \in CountedFor(l)}
             = 1..Cardinality(CountedFor(l))
C17_ReturnsOwnIncrement == []C17_DistinctTotals /\ [][C17_CountedStep]_vars

\* Two clicks of one link were counted: the one that created the counter
\* was answered 1 and the other one 2.
C17_Witness ==
    \E r, s \in Reqs :
        /\ r # s
        /\ Counted(r) /\ Counted(s)
        /\ req[r].linkId = req[s].linkId
        /\ req[r].res.totalCount = 1
        /\ req[s].res.totalCount = 2

\* ------------------------------------------------------------------ C18
\* Request r's insertOne settles in this step without a record being added
\* although no record of its triple was in the way: the insert failed for a
\* reason other than the uniqueness violation.
C18_InsertFailedStep(r) ==
    /\ req[r].pc = "awaitInsert"
    /\ req'[r] # req[r]
    /\ LedgerPos(r) = 0
    /\ userClicks' = userClicks
\* Request r's findOneAndUpdate settles in this step without the counter
\* having been incremented: the increment failed.
C18_UpdateFailedStep(r) ==
    /\ req[r].pc = "awaitUpdate"
    /\ req'[r] # req[r]
    /\ counts' = counts

\* C18: a failed ledger insert (other than a duplicate) is answered with the
\* 500 "DB insert error" response and leaves ledger and counters unchanged;
\* a failed increment is answered with the 500 "Server error" response; a
\* request answered with a 500 response wrote nothing in that step beyond
\* what had committed before; and the server goes on listening.
C18_StorageFailureStep ==
    /\ \A r \in Reqs :
         /\ C18_InsertFailedStep(r)
              => /\ req'[r].pc = "done"
                 /\ req'[r].res = RespInsertErr
                 /\ counts' = counts
         /\ C18_UpdateFailedStep(r)
              => /\ req'[r].pc = "done"
                 /\ req'[r].res = RespServerErr
                 /\ userClicks' = userClicks
         /\ (req[r].pc # "done" /\ req'[r].pc = "done"
             /\ req'[r].res = RespInsertErr)
              => /\ userClicks' = userClicks
                 /\ counts' = counts
    /\ server = "listening" => server' = "listening"
C18_ErrorResponses ==
    \A r \in Reqs :
        Done(r) /\ req[r].res.status = 500
        => req[r].res \in {RespInsertErr, RespServerErr}
C18_StorageFailureReported ==
    []C18_ErrorResponses /\ [][C18_StorageFailureStep]_vars

\* A click whose ledger insert failed was answered 500 "DB insert error":
\* the ledger holds no record of it and its link has no counter.
C18_Witness ==
    \E r \in Reqs :
        /\ Received(r)
        /\ InsertErr(r)
        /\ LedgerPos(r) = 0
        /\ TotalCount(req[r].linkId) = 0

\* ------------------------------------------------------------------ C19
\* C19: in every reachable state the totalCount of each linkId is at most
\* the number of ledger records of that linkId, and every counter record is
\* for a linkId that has a ledger record.
C19_CounterWithinLedger ==
    /\ \A l \in ValidLinks : TotalCount(l) <= LedgerCount(l)
    /\ \A i \in 1..Len(counts) : LedgerCount(counts[i].linkId) >= 1

\* One click of a link is between its ledger insert and its increment and
\* another click of the same link had its increment fail: the ledger holds
\* two records of the link and no counter exists for it.
C19_Witness ==
    \E r, s \in Reqs :
        /\ Received(r) /\ Received(s)
        /\ req[r].linkId = req[s].linkId
        /\ req[r].pc = "awaitUpdate"
        /\ PartialFailure(s)
        /\ LedgerCount(req[r].linkId) = 2
        /\ TotalCount(req[r].linkId) = 0

\* ------------------------------------------------------------------ C20
\* C20: a click, stats or recent-clicks request is handled only when the
\* server is listening; the server listens only after connecting and with
\* both unique indexes created, the ledger's before the counters'; after a
\* failed start it has handled no request ...
C20_HandledOnlyWhenReady ==
    /\ (\E r \in Reqs : req[r].pc # "new") => server = "listening"
    /\ server = "listening" => {IdxUserClicks, IdxCounts} \subseteq indexes
    /\ IdxCounts \in indexes => IdxUserClicks \in indexes
    /\ server = "connecting" => indexes = {}
    /\ server = "exited" => \A r \in Reqs : req[r].pc = "new"
\* ... and never starts listening, and a request is taken up only by a
\* server that is listening with both indexes in place.
C20_StartStep ==
    /\ server = "exited" => server' = "exited"
    /\ (server # "listening" /\ server' = "listening")
         => /\ server = "indexCounts"
            /\ {IdxUserClicks, IdxCounts} \subseteq indexes'
    /\ \A r \in Reqs :
         (req[r].pc = "new" /\ req'[r].pc # "new")
         => /\ server = "listening"
            /\ {IdxUserClicks, IdxCounts} \subseteq indexes
C20_StartupOrdering == []C20_HandledOnlyWhenReady /\ [][C20_StartStep]_vars

\* A click has been counted and a stats query answered by a server that is
\* listening with both unique indexes created.
C20_Witness ==
    /\ server = "listening"
    /\ indexes = {IdxUserClicks, IdxCounts}
    /\ \E r \in Reqs : Received(r) /\ Counted(r)
    /\ \E r \in Reqs : StatsDone(r)

====
